---- MODULE Spec2Model ----
(***************************************************************************)
(* N-ATLAS API server (src/app.py): the startup load of the cached corpus, *)
(* the universal fuzzy match, the fallback synthesizer and the four        *)
(* request handlers, as a state machine.                                   *)
(*                                                                         *)
(* Strings are sequences of characters (one-character TLA+ strings), so    *)
(* strip, lower, title, split, sort, join, substring search and the        *)
(* similarity ratio are computed as Python and rapidfuzz compute them.     *)
(* Literal template text is kept as multi-character chunks.                *)
(* A dict is a function whose DOMAIN is the set of keys present.           *)
(*                                                                         *)
(* A handler runs from start to finish in one step.  The scorer is called  *)
(* without a processor, as process.extractOne calls it by default, so      *)
(* strings are compared as they are; the request texts and cached inputs   *)
(* used here score the same under a case-folding processor.                *)
(***************************************************************************)
EXTENDS Integers, Sequences, FiniteSets, TLC

(***************************************************************************)
(* Bounds                                                                  *)
(***************************************************************************)
\* largest number of cases in the complete-cases dataset on disk
MaxCases == 2

(***************************************************************************)
(* Python str primitives                                                   *)
(***************************************************************************)
Lowers == <<"a","b","c","d","e","f","g","h","i","j","k","l","m",
            "n","o","p","q","r","s","t","u","v","w","x","y","z">>
Uppers == <<"A","B","C","D","E","F","G","H","I","J","K","L","M",
            "N","O","P","Q","R","S","T","U","V","W","X","Y","Z">>
\* the characters in code-point order (str comparison is by code point); a
\* character outside ASCII is written as its code point, "u1ECD" for U+1ECD
CodePoints == <<"\t", "\n", " ">> \o Uppers \o Lowers \o
              <<"u00E0","u00E9","u00EC","u00ED","u0199","u0253","u0300",
                "u1EB9","u1ECB","u1ECD","u1EE5">>
Whitespace == {" ", "\t", "\n"}

Range(s) == {s[i] : i \in DOMAIN s}
Max(a, b) == IF a >= b THEN a ELSE b
Min(a, b) == IF a <= b THEN a ELSE b
IndexIn(seq, c) == CHOOSE i \in DOMAIN seq : seq[i] = c
Ord(c) == IndexIn(CodePoints, c)

LowerChar(c) == IF c \in Range(Uppers) THEN Lowers[IndexIn(Uppers, c)] ELSE c
UpperChar(c) == IF c \in Range(Lowers) THEN Uppers[IndexIn(Lowers, c)] ELSE c
IsCased(c) == c \in Range(Lowers) \cup Range(Uppers)

\* str.lower()
Lower(s) == [i \in DOMAIN s |-> LowerChar(s[i])]
\* str.title(): a cased character is upper-cased after an uncased one (or at
\* the start) and lower-cased after a cased one
Title(s) == [i \in DOMAIN s |->
               IF i = 1 \/ ~IsCased(s[i-1]) THEN UpperChar(s[i]) ELSE LowerChar(s[i])]

RECURSIVE LStrip(_)
LStrip(s) == IF s # <<>> /\ Head(s) \in Whitespace THEN LStrip(Tail(s)) ELSE s
RECURSIVE RStrip(_)
RStrip(s) == IF s # <<>> /\ s[Len(s)] \in Whitespace
             THEN RStrip(SubSeq(s, 1, Len(s) - 1)) ELSE s
\* str.strip()
Strip(s) == RStrip(LStrip(s))

\* str.split(): the maximal runs of non-whitespace characters
RECURSIVE SplitFrom(_, _, _)
SplitFrom(s, cur, acc) ==
    IF s = <<>> THEN (IF cur = <<>> THEN acc ELSE Append(acc, cur))
    ELSE IF Head(s) \in Whitespace
         THEN SplitFrom(Tail(s), <<>>, IF cur = <<>> THEN acc ELSE Append(acc, cur))
         ELSE SplitFrom(Tail(s), Append(cur, Head(s)), acc)
Split(s) == SplitFrom(s, <<>>, <<>>)

\* a < b for str: the first differing code point decides, a proper prefix is smaller
RECURSIVE StrLess(_, _)
StrLess(a, b) ==
    IF b = <<>> THEN FALSE
    ELSE IF a = <<>> THEN TRUE
    ELSE IF Head(a) = Head(b) THEN StrLess(Tail(a), Tail(b))
    ELSE Ord(Head(a)) < Ord(Head(b))

\* sorted(tokens): stable insertion sort
RECURSIVE Insert(_, _)
Insert(sorted, t) ==
    IF sorted = <<>> THEN <<t>>
    ELSE IF StrLess(t, Head(sorted)) THEN <<t>> \o sorted
    ELSE <<Head(sorted)>> \o Insert(Tail(sorted), t)
RECURSIVE Sorted(_)
Sorted(tokens) ==
    IF tokens = <<>> THEN <<>>
    ELSE Insert(Sorted(SubSeq(tokens, 1, Len(tokens) - 1)), tokens[Len(tokens)])

\* sep.join(parts)
RECURSIVE Join(_, _)
Join(sep, parts) ==
    IF parts = <<>> THEN <<>>
    ELSE IF Len(parts) = 1 THEN parts[1]
    ELSE parts[1] \o sep \o Join(sep, Tail(parts))

\* term in text
Contains(text, term) ==
    \E i \in 1..(Len(text) - Len(term) + 1) : SubSeq(text, i, i + Len(term) - 1) = term

(***************************************************************************)
(* rapidfuzz: fuzz.ratio, fuzz.token_sort_ratio, process.extractOne        *)
(***************************************************************************)
\* one row of the longest-common-subsequence table; row[j+1] is the LCS length
\* of the prefix handled so far with the first j characters of b
RECURSIVE LCSRow(_, _, _, _)
LCSRow(prev, c, b, cur) ==
    IF Len(cur) = Len(b) + 1 THEN cur
    ELSE LET j == Len(cur)
         IN  LCSRow(prev, c, b,
                    Append(cur, IF c = b[j] THEN prev[j] + 1
                                ELSE Max(prev[j + 1], cur[j])))
RECURSIVE LCSRows(_, _, _)
LCSRows(a, b, prev) ==
    IF a = <<>> THEN prev
    ELSE LCSRows(Tail(a), b, LCSRow(prev, Head(a), b, <<0>>))
LCS(a, b) == LCSRows(a, b, [j \in 1..(Len(b) + 1) |-> 0])[Len(b) + 1]

\* fuzz.ratio = 100 * 2*LCS / (len(a) + len(b)), a float; 100 for two empty
\* strings.  Kept as an exact fraction num/den.
Ratio(a, b) ==
    IF Len(a) + Len(b) = 0 THEN [num |-> 100, den |-> 1]
    ELSE [num |-> 200 * LCS(a, b), den |-> Len(a) + Len(b)]
TokenSortRatioOf(s1, s2) ==
    Ratio(Join(<<" ">>, Sorted(Split(s1))), Join(<<" ">>, Sorted(Split(s2))))

ScoreLess(x, y) == x.num * y.den < y.num * x.den
ScoreAtLeast(x, n) == x.num >= n * x.den
\* the score as reported, with the fraction of a percent dropped
ScoreValue(x) == x.num \div x.den

(***************************************************************************)
(* Language tags and the symptom lexicon                                   *)
(***************************************************************************)
yoruba  == <<"y","o","r","u","b","a">>
igbo    == <<"i","g","b","o">>
hausa   == <<"h","a","u","s","a">>
english == <<"e","n","g","l","i","s","h">>
\* the keys of CACHED_DATA, in the order the default and the dataset list them
PartitionOrder == <<yoruba, igbo, hausa, english>>
Languages == Range(PartitionOrder)

YorubaTerms ==
    <<<<"i","b","a">>, <<"o","t","u","t","u">>, <<"a","a","r","u","n">>,
      <<"a","i","s","a","n">>, <<"o","r","i">>, <<"i","n","u">>, <<"a","r","a">>,
      <<"e","g","u","n","g","u","n">>, <<"a","y","a">>, <<"g","b","u","u","r","u">>,
      <<"i","k","u1ECD">>, <<"o","b","i">>, <<"e","e","b","i">>,
      <<"r","u1EB9","w","u1EB9","s","i">>, <<"t","u","t","u">>,
      <<"o","g","u","n"," ","o","r","u">>, <<"u1ECD","g","b","u1EB9">>,
      <<"m","a","l","a","r","i","a">>, <<"u00E0","u00EC","s","u00E0","n">>,
      <<"g","b","u00ED","g","b","u1ECD","u0300","n">>>>
IgboTerms ==
    <<<<"u1ECD","k","u1EE5">>, <<"i","s","i">>, <<"a","h","u1EE5">>, <<"m","g","b","u">>,
      <<"u1ECD","r","u1ECB","a">>, <<"a","f","u1ECD">>, <<"o","b","i">>,
      <<"a","k","u1EE5","k","u1EE5">>, <<"u1EE5","k","w","a","r","a">>, <<"n","s","i">>,
      <<"i","k","e">>, <<"o","y","i">>, <<"u1ECD","b","a","r","a">>,
      <<"a","g","b","u1ECD">>, <<"u1ECD","k","u1EE5","u1ECD","k","u1EE5">>,
      <<"i","s","i"," ","u1ECD","w","u1EE5","w","a">>, <<"u1ECB","g","b","a">>,
      <<"u1ECB","b","a">>, <<"o","k","u00E9"," ","m","g","b","u">>,
      <<"n","k","w","o","n","k","w","o">>, <<"a","z","u1EE5">>>>
HausaTerms ==
    <<<<"z","a","z","z","a","u0253","i">>, <<"s","a","n","y","i">>, <<"c","i","w","o">>,
      <<"j","i","n","y","a">>, <<"k","a","i">>, <<"c","i","k","i">>, <<"j","i","k","i">>,
      <<"u0199","a","s","h","i">>, <<"u0199","i","r","j","i">>, <<"t","a","r","i">>,
      <<"z","a","w","o">>, <<"m","u","r","a">>, <<"u0199","a","r","f","i">>,
      <<"h","a","n","t","a">>, <<"z","u","b","a","r">>, <<"j","i","n","i">>,
      <<"a","m","o">>, <<"m","a","l","a","r","i","y","a">>,
      <<"c","i","w","o","n"," ","c","i","k","i">>, <<"a","m","a","i">>,
      <<"b","a","y","a">>>>
EnglishTerms ==
    <<<<"f","e","v","e","r">>, <<"h","e","a","d","a","c","h","e">>, <<"p","a","i","n">>,
      <<"a","c","h","e">>, <<"s","o","r","e">>, <<"b","o","d","y">>,
      <<"s","t","o","m","a","c","h">>, <<"c","h","e","s","t">>, <<"b","o","n","e">>,
      <<"b","a","c","k">>, <<"c","o","u","g","h">>, <<"d","i","a","r","r","h","e","a">>,
      <<"v","o","m","i","t">>, <<"w","e","a","k">>, <<"c","o","l","d">>,
      <<"c","h","i","l","l","s">>, <<"f","l","u">>, <<"m","a","l","a","r","i","a">>,
      <<"n","a","u","s","e","a">>, <<"s","i","c","k","n","e","s","s">>,
      <<"i","l","l","n","e","s","s">>, <<"f","a","t","i","g","u","e">>>>
EXPANDED_MEDICAL_TERMS ==
    (yoruba :> YorubaTerms) @@ (igbo :> IgboTerms) @@
    (hausa :> HausaTerms) @@ (english :> EnglishTerms)

\* the orders a list built from a set may have
Orderings(S) ==
    {s \in [1..Cardinality(S) -> S] : \A i, j \in DOMAIN s : i # j => s[i] # s[j]}

\* the distinct lexicon terms, of any language, that occur in the lowered text
KeywordSetOf(text) ==
    LET text_lower == Lower(text)
    IN  {term \in UNION {Range(EXPANDED_MEDICAL_TERMS[l]) : l \in Languages} :
            Contains(text_lower, term)}
(***************************************************************************)
(* Dicts                                                                   *)
(***************************************************************************)
\* d.get(key, default)
Get(d, key, default) == IF key \in DOMAIN d THEN d[key] ELSE default
\* not d.get(key): the key is missing, or its value is an empty str or list
Falsy(d, key) == key \notin DOMAIN d \/ d[key] = <<>>
\* d[key] = value
Put(d, key, value) == (key :> value) @@ d
EmptyDict == <<>>

(***************************************************************************)
(* The artifacts on disk and the requests: the inputs of the model         *)
(***************************************************************************)
HeadPain == <<"h","e","a","d"," ","p","a","i","n">>
Iba      == <<"i","b","a">>

\* a well-formed case of the dataset, every field present and non-empty
FullCase(input, language, success) ==
    [input |-> input,
     language |-> language,
     translation |-> <<"cached translation of ">> \o input,
     cultural_context |-> <<"cached cultural context">>,
     medical_keywords |-> <<<<"p","a","i","n">>, <<"h","e","a","d","a","c","h","e">>>>,
     severity |-> "mild",
     recommended_specialties |-> <<"Neurologist">>,
     nigerian_context |-> <<"cached nigerian context">>,
     enhanced_notes |-> <<"cached notes on ">> \o input,
     success |-> success]
Without(d, keys) == [k \in DOMAIN d \ keys |-> d[k]]

\* The cases a dataset is drawn from, in dataset order: [lang, case] is a case of
\* partition lang.  They cover a well-formed case, the corpus-quality gaps (a
\* missing translation, an empty medical_keywords, a missing language), and an
\* unsuccessful case whose input successful cases share, within its partition
\* and in another one.
CaseMenu ==
    << [lang |-> hausa,   case |-> FullCase(HeadPain, hausa, FALSE)],
       [lang |-> hausa,   case |-> Without(FullCase(HeadPain, hausa, TRUE), {"translation"})],
       [lang |-> english, case |-> Put(FullCase(HeadPain, english, TRUE), "medical_keywords", <<>>)],
       [lang |-> english, case |-> FullCase(HeadPain, english, TRUE)],
       [lang |-> english, case |-> Without(FullCase(Iba, english, TRUE), {"language", "translation"})] >>

\* the dataset holding the menu entries picked, in menu order
RECURSIVE Dataset(_, _)
Dataset(picked, i) ==
    IF i = 0 THEN [l \in Languages |-> <<>>]
    ELSE LET rest == Dataset(picked, i - 1)
             m == CaseMenu[i]
         IN  IF i \in picked
             THEN [rest EXCEPT ![m.lang] = Append(@, m.case)]
             ELSE rest
Datasets ==
    {Dataset(picked, Len(CaseMenu)) :
        picked \in {p \in SUBSET DOMAIN CaseMenu : Cardinality(p) <= MaxCases}}

\* an artifact is present and parses, is absent (FileNotFoundError), or is
\* present and cannot be read or parsed (PermissionError, JSONDecodeError)
FileStates == {"ok", "missing", "unreadable"}
MetadataRecord == [generated_at |-> <<"2024-01-01T00:00:00">>]
Disks ==
    {[complete |-> "ok", data |-> d, metadata |-> m] : d \in Datasets, m \in FileStates}
    \cup {[complete |-> c, data |-> [l \in Languages |-> <<>>], metadata |-> m] :
            c \in {"missing", "unreadable"}, m \in FileStates}

\* request texts: the empty and the whitespace-only text, a transposition of a
\* cached input with surrounding whitespace, a cached input, a text with two
\* lexicon terms that is close to a cached input, and an unknown phrase
Texts ==
    { <<>>,
      <<" ", "\t">>,
      <<" ","p","a","i","n"," "," ","h","e","a","d","\n">>,
      HeadPain,
      <<"i","b","a","r","a">>,
      <<"X","y","z">> }
french == <<"f","r","e","n","c","h">>
Hints == Languages \cup {french}
\* the JSON objects a request body can be: text and language are optional keys
Bodies ==
    {EmptyDict, [language |-> english]}
    \cup {[text |-> t] : t \in Texts}
    \cup {[text |-> t, language |-> h] : t \in {x \in Texts : Strip(x) # <<>>}, h \in Hints}
\* a POST request: its endpoint and request.json, None for a JSON null body
PostRequests(endpoint) ==
    {[endpoint |-> endpoint, json |-> "null", data |-> EmptyDict]}
    \cup {[endpoint |-> endpoint, json |-> "object", data |-> b] : b \in Bodies}
IsNone(req) == req.json = "null"

(***************************************************************************)
(* extract_keywords and the scorer on the model's inputs                   *)
(***************************************************************************)
\* The values the two pure functions take on the request texts and the cached
\* inputs are computed once; any other argument is computed on demand.
StrippedTexts == {Strip(t) : t \in Texts}
MenuInputs == {CaseMenu[i].case.input : i \in DOMAIN CaseMenu}
\* (@@ turns each table into an explicit function, evaluated once)
KeywordMemo == [t \in StrippedTexts |-> KeywordSetOf(t)] @@ <<>>
RatioMemo ==
    [p \in StrippedTexts \X MenuInputs |-> TokenSortRatioOf(p[1], p[2])] @@ <<>>
KeywordSet(text) ==
    IF text \in DOMAIN KeywordMemo THEN KeywordMemo[text] ELSE KeywordSetOf(text)
token_sort_ratio(s1, s2) ==
    IF <<s1, s2>> \in DOMAIN RatioMemo THEN RatioMemo[<<s1, s2>>]
    ELSE TokenSortRatioOf(s1, s2)
\* list(set(keywords)): the terms found, each once, in an order Python does not fix
extract_keywords(text) == Orderings(KeywordSet(text))

(***************************************************************************)
(* get_fallback_response                                                   *)
(***************************************************************************)
Sentinel == <<"symptom assessment needed">>
\* the placeholder left out: an empty keyword list is returned as it is
NoSentinel(keywords) == keywords
\* the medical_keywords of a fallback response
FallbackKeywords(keywords) == IF keywords # <<>> THEN keywords ELSE <<Sentinel>>

\* the response built from one order of the extracted keywords
FallbackFrom(text, language, keywords) ==
    LET keyword_str == IF keywords # <<>> THEN Join(<<",", " ">>, keywords)
                       ELSE <<"general malaise">>
        translation_placeholder ==
            <<"The patient reports symptoms consistent with ">>
            \o Lower(keyword_str) \o <<".">>
        cultural_placeholder ==
            <<"The phrase '">> \o text \o <<"' is a common ">> \o Title(language)
            \o <<" expression for illness. In Nigerian health context, this presentation (especially fever/pain) often requires ruling out prevalent endemic issues like malaria or typhoid.">>
        nigerian_context_placeholder ==
            <<"This is a frequent complaint in Nigerian clinics. Given the reported keywords (">>
            \o keyword_str
            \o <<"), initial assessment should focus on common febrile illnesses and basic supportive care.">>
    IN  [input |-> text,
         language |-> language,
         translation |-> translation_placeholder,
         cultural_context |-> cultural_placeholder,
         medical_keywords |-> FallbackKeywords(keywords),
         severity |-> "moderate",
         nigerian_context |-> nigerian_context_placeholder,
         recommended_specialties |-> <<"General Practitioner", "Internal Medicine">>,
         enhanced_notes |->
            <<"PATIENT COMPLAINT: ">> \o text
            \o <<"\n\nTRANSLATION: ">> \o translation_placeholder
            \o <<"\n\nCULTURAL CONTEXT: ">> \o cultural_placeholder
            \o <<"\n\nKEYWORDS: ">> \o keyword_str
            \o <<"\n\nRECOMMENDATION: Professional medical assessment needed, focusing on symptomatic relief.">>,
         match_type |-> "fallback_enhanced",
         similarity_score |-> 0,
         success |-> TRUE,
         cached |-> FALSE]

\* the responses get_fallback_response(text, language) can return, one for each
\* order extract_keywords can give the keywords
get_fallback_response(text, language) ==
    {FallbackFrom(text, language, keywords) : keywords \in extract_keywords(text)}
(***************************************************************************)
(* State                                                                   *)
(***************************************************************************)
VARIABLES
    disk,                     \* the two artifacts in the cache directory
    pc,                       \* "boot", "serving", or "crashed" (import raised)
    CACHED_DATA,              \* language -> list of case dicts
    METADATA,                 \* the metadata dict
    total_cached,             \* the number of cases counted at load
    UNIVERSAL_CACHED_INPUTS,  \* the flattened list of successful cases
    request,                  \* the request handled last
    response,                 \* its response: HTTP status and JSON body
    trace                     \* what its handler did: the functions it called
                              \* and the cached case it matched

vars == <<disk, pc, CACHED_DATA, METADATA, total_cached, UNIVERSAL_CACHED_INPUTS,
          request, response, trace>>

NoRequest == [endpoint |-> "none"]
NoResponse == [status |-> 0, body |-> EmptyDict]
NoMatch == <<>>
NoTrace == [calls |-> {}, matched |-> NoMatch]

\* module level, lines 33-35, before the load
Init ==
    /\ disk \in Disks
    /\ pc = "boot"
    /\ CACHED_DATA = [l \in Languages |-> <<>>]
    /\ METADATA = EmptyDict
    /\ total_cached = 0
    /\ UNIVERSAL_CACHED_INPUTS = <<>>
    /\ request = NoRequest
    /\ response = NoResponse
    /\ trace = NoTrace

(***************************************************************************)
(* Startup: the load and the universal list                                *)
(***************************************************************************)
\* the filter left out: every case enters the universal list
EligibleAlways(case) == TRUE
\* case.get('success', False)
Eligible(case) == Get(case, "success", FALSE) = TRUE

\* the items appended for the cases of one partition; full_case is a reference
\* to the case dict inside CACHED_DATA, kept as its partition and position
RECURSIVE PartitionItems(_, _, _)
PartitionItems(lang, cases, i) ==
    IF i > Len(cases) THEN <<>>
    ELSE (IF Eligible(cases[i])
          THEN <<[input |-> Get(cases[i], "input", <<>>),
                  language |-> lang,
                  full_case |-> <<lang, i>>]>>
          ELSE <<>>)
         \o PartitionItems(lang, cases, i + 1)
RECURSIVE UniversalFrom(_, _)
UniversalFrom(data, k) ==
    IF k > Len(PartitionOrder) THEN <<>>
    ELSE PartitionItems(PartitionOrder[k], data[PartitionOrder[k]], 1)
         \o UniversalFrom(data, k + 1)
BuildUniversal(data) == UniversalFrom(data, 1)

RECURSIVE SumLen(_, _)
SumLen(data, k) ==
    IF k > Len(PartitionOrder) THEN 0
    ELSE Len(data[PartitionOrder[k]]) + SumLen(data, k + 1)
CountCases(data) == SumLen(data, 1)

\* The try block opens the dataset, then the metadata, then counts; only
\* FileNotFoundError is caught, and it leaves what was assigned before it.
Startup ==
    /\ pc = "boot"
    /\ LET dataLoaded == disk.complete = "ok"
           raised == \/ disk.complete = "unreadable"
                     \/ dataLoaded /\ disk.metadata = "unreadable"
           allLoaded == dataLoaded /\ disk.metadata = "ok"
           data == IF dataLoaded THEN disk.data ELSE CACHED_DATA
       IN  /\ CACHED_DATA' = data
           /\ METADATA' = IF allLoaded THEN MetadataRecord ELSE METADATA
           /\ total_cached' = IF allLoaded THEN CountCases(data) ELSE total_cached
           /\ UNIVERSAL_CACHED_INPUTS' =
                 IF raised THEN UNIVERSAL_CACHED_INPUTS ELSE BuildUniversal(data)
           /\ pc' = IF raised THEN "crashed" ELSE "serving"
    /\ UNCHANGED <<disk, request, response, trace>>

\* the case dict an item of the universal list refers to
CaseAt(data, ref) == data[ref[1]][ref[2]]
(***************************************************************************)
(* The universal fuzzy match (steps 1 and 2 of analyze, analyze_for_doctors)*)
(***************************************************************************)
Threshold == 70

\* process.extractOne(query, choices, scorer=fuzz.token_sort_ratio): the choices
\* are scored in order and a choice replaces the best one only with a strictly
\* higher score, so the first of the best-scoring choices wins; None for no
\* choices
RECURSIVE ExtractLoop(_, _, _, _)
ExtractLoop(query, choices, i, best) ==
    IF i > Len(choices) THEN best
    ELSE LET score == token_sort_ratio(query, choices[i])
         IN  IF ~best.found \/ ScoreLess(best.score, score)
             THEN ExtractLoop(query, choices, i + 1,
                              [found |-> TRUE, choice |-> choices[i],
                               score |-> score, index |-> i])
             ELSE ExtractLoop(query, choices, i + 1, best)
extractOne(query, choices) ==
    ExtractLoop(query, choices, 1,
                [found |-> FALSE, choice |-> <<>>,
                 score |-> [num |-> 0, den |-> 1], index |-> 0])

\* best_match_info and best_match_info[1] >= 70
Accepted(best) == best.found /\ ScoreAtLeast(best.score, Threshold)

\* next(item['full_case'] for item in UNIVERSAL_CACHED_INPUTS
\*      if item['input'] == matched_input): the first item with that input
FirstWithInput(universal, matched_input) ==
    LET k == CHOOSE k \in DOMAIN universal :
                 /\ universal[k].input = matched_input
                 /\ \A j \in 1..(k - 1) : universal[j].input # matched_input
    IN  universal[k].full_case

\* the match attempt: whether a cached case is accepted, which one, its score
Match(data, universal, text) ==
    LET all_inputs_list == [k \in DOMAIN universal |-> universal[k].input]
        best_match_info == extractOne(text, all_inputs_list)
    IN  IF Accepted(best_match_info)
        THEN LET ref == FirstWithInput(universal, best_match_info.choice)
             IN  [hit |-> DOMAIN CaseAt(data, ref) # {},
                  full_case |-> ref,
                  similarity_score |-> ScoreValue(best_match_info.score)]
        ELSE [hit |-> FALSE, full_case |-> NoMatch, similarity_score |-> 0]

\* "Populate empty fields with placeholder text": when the matched case has no
\* translation or no medical_keywords, its translation and enhanced_notes are
\* assigned from a fallback response built for the request text.  full_result
\* is the dict held by CACHED_DATA, so the assignment changes the corpus.
\* A case without a language makes get_fallback_response raise (None.title()).
Patch(data, ref, text) ==
    LET case == CaseAt(data, ref)
    IN  IF Falsy(case, "translation") \/ Falsy(case, "medical_keywords")
        THEN IF "language" \notin DOMAIN case
             THEN {[raised |-> TRUE, patched |-> TRUE, data |-> data, case |-> case]}
             ELSE {LET full_result ==
                           Put(Put(case, "translation", fb.translation),
                               "enhanced_notes", fb.enhanced_notes)
                   IN  [raised |-> FALSE, patched |-> TRUE,
                        data |-> [data EXCEPT ![ref[1]][ref[2]] = full_result],
                        case |-> full_result] :
                   fb \in get_fallback_response(text, case.language)}
        ELSE {[raised |-> FALSE, patched |-> FALSE, data |-> data, case |-> case]}

(***************************************************************************)
(* The handlers.  Each gives the set of outcomes of one request: the       *)
(* response, CACHED_DATA afterwards, and the trace of the handler.         *)
(***************************************************************************)
Outcome(status, body, data, calls, matched) ==
    [response |-> [status |-> status, body |-> body],
     data |-> data,
     trace |-> [calls |-> calls, matched |-> matched]]
ErrorBody(error) == [success |-> FALSE, error |-> error]
\* str(e) of the AttributeError raised by None.get and None.title
NoneHasNoGet == "'NoneType' object has no attribute 'get'"
NoneHasNoTitle == "'NoneType' object has no attribute 'title'"

\* the hint ignored: the default tag whatever the request carries
LanguageInputDefault(data) == english
\* data.get('language', 'english').lower()
LanguageInput(data) == Lower(Get(data, "language", english))
\* the check left out: an empty text goes on to the match
EmptyTextNever(text) == FALSE
\* not text
EmptyText(text) == text = <<>>

MatchCalls == {"extractOne"}
PatchCalls(p) == IF p.patched THEN {"get_fallback_response", "extract_keywords"} ELSE {}
FallbackCalls == {"extractOne", "get_fallback_response", "extract_keywords"}

\* POST /analyze
analyze(data, universal, req) ==
    IF IsNone(req) \/ req.data = EmptyDict \/ "text" \notin DOMAIN req.data
    THEN {Outcome(400, ErrorBody("Missing 'text' in request body"), data, {}, NoMatch)}
    ELSE
    LET text == Strip(req.data.text)
        language_input == LanguageInput(req.data)
    IN  IF EmptyText(text)
        THEN {Outcome(400, ErrorBody("Empty text provided"), data, {}, NoMatch)}
        ELSE
        LET m == Match(data, universal, text)
        IN  IF m.hit
            THEN {IF p.raised
                  THEN Outcome(500,
                               [success |-> FALSE, error |-> "Internal Processing Error",
                                details |-> NoneHasNoTitle],
                               p.data, MatchCalls \cup PatchCalls(p), m.full_case)
                  ELSE Outcome(200,
                               [match_type |-> "universal_fuzzy",
                                similarity_score |-> m.similarity_score,
                                cached |-> TRUE] @@ p.case,
                               p.data, MatchCalls \cup PatchCalls(p), m.full_case) :
                  p \in Patch(data, m.full_case, text)}
            ELSE {Outcome(200, result, data, FallbackCalls, NoMatch) :
                  result \in get_fallback_response(text, language_input)}

\* POST /quick-symptoms
quick_symptoms(data, req) ==
    IF IsNone(req)
    THEN {Outcome(500, ErrorBody(NoneHasNoGet), data, {}, NoMatch)}
    ELSE
    LET text == Strip(Get(req.data, "text", <<>>))
        language_input == LanguageInput(req.data)
    IN  IF EmptyText(text)
        THEN {Outcome(400, ErrorBody("Empty text provided"), data, {}, NoMatch)}
        ELSE {Outcome(200,
                      [success |-> TRUE,
                       symptoms |-> SubSeq(symptoms, 1, Min(10, Len(symptoms))),
                       language |-> language_input,
                       cached |-> FALSE,
                       match_type |-> "keyword_extraction"],
                      data, {"extract_keywords"}, NoMatch) :
              symptoms \in extract_keywords(text)}

\* the response of analyze_for_doctors, built from a case or a fallback response
DoctorView(result, text, match_type, similarity_score, cached) ==
    [success |-> TRUE,
     enhanced_notes |-> Get(result, "enhanced_notes", <<>>),
     original |-> text,
     translation |-> Get(result, "translation", <<>>),
     keywords |-> Get(result, "medical_keywords", <<>>),
     severity |-> Get(result, "severity", "moderate"),
     recommended_specialties |-> Get(result, "recommended_specialties", <<>>),
     cultural_insights |->
        [context |-> Get(result, "cultural_context", <<>>),
         nigerian_health_notes |-> Get(result, "nigerian_context", <<>>)],
     match_type |-> match_type,
     similarity_score |-> similarity_score,
     cached |-> cached]

\* POST /analyze-for-doctors
analyze_for_doctors(data, universal, req) ==
    IF IsNone(req)
    THEN {Outcome(500, ErrorBody(NoneHasNoGet), data, {}, NoMatch)}
    ELSE
    LET text == Strip(Get(req.data, "text", <<>>))
        language_input == LanguageInput(req.data)
    IN  IF EmptyText(text)
        THEN {Outcome(400, ErrorBody("Empty text provided"), data, {}, NoMatch)}
        ELSE
        LET m == Match(data, universal, text)
        IN  IF m.hit
            THEN {IF p.raised
                  THEN Outcome(500, ErrorBody(NoneHasNoTitle),
                               p.data, MatchCalls \cup PatchCalls(p), m.full_case)
                  ELSE Outcome(200,
                               DoctorView(p.case, text, "universal_fuzzy",
                                          m.similarity_score, TRUE),
                               p.data, MatchCalls \cup PatchCalls(p), m.full_case) :
                  p \in Patch(data, m.full_case, text)}
            ELSE {Outcome(200,
                          DoctorView(result, text, "fallback_enhanced", 0, FALSE),
                          data, FallbackCalls, NoMatch) :
                  result \in get_fallback_response(text, language_input)}

\* GET /health; the timestamp is the clock's and is left out
health(cached_count, metadata) ==
    [status |-> "healthy",
     model |-> "N-ATLAS",
     mode |-> "cached_responses",
     cache_loaded |-> cached_count > 0,
     total_cached |-> cached_count,
     languages |-> PartitionOrder,
     generated_at |-> Get(metadata, "generated_at", <<"Unknown">>)]

(***************************************************************************)
(* Actions: one request handled, start to finish                           *)
(***************************************************************************)
Analyze ==
    /\ pc = "serving"
    /\ \E req \in PostRequests("/analyze") :
       \E o \in analyze(CACHED_DATA, UNIVERSAL_CACHED_INPUTS, req) :
          /\ request' = req
          /\ response' = o.response
          /\ CACHED_DATA' = o.data
          /\ trace' = o.trace
    /\ UNCHANGED <<disk, pc, METADATA, total_cached, UNIVERSAL_CACHED_INPUTS>>

QuickSymptoms ==
    /\ pc = "serving"
    /\ \E req \in PostRequests("/quick-symptoms") :
       \E o \in quick_symptoms(CACHED_DATA, req) :
          /\ request' = req
          /\ response' = o.response
          /\ CACHED_DATA' = o.data
          /\ trace' = o.trace
    /\ UNCHANGED <<disk, pc, METADATA, total_cached, UNIVERSAL_CACHED_INPUTS>>

AnalyzeForDoctors ==
    /\ pc = "serving"
    /\ \E req \in PostRequests("/analyze-for-doctors") :
       \E o \in analyze_for_doctors(CACHED_DATA, UNIVERSAL_CACHED_INPUTS, req) :
          /\ request' = req
          /\ response' = o.response
          /\ CACHED_DATA' = o.data
          /\ trace' = o.trace
    /\ UNCHANGED <<disk, pc, METADATA, total_cached, UNIVERSAL_CACHED_INPUTS>>

Health ==
    /\ pc = "serving"
    /\ request' = [endpoint |-> "/health"]
    /\ response' = [status |-> 200, body |-> health(total_cached, METADATA)]
    /\ trace' = NoTrace
    /\ UNCHANGED <<disk, pc, CACHED_DATA, METADATA, total_cached,
                   UNIVERSAL_CACHED_INPUTS>>

Next == Startup \/ Analyze \/ QuickSymptoms \/ AnalyzeForDoctors \/ Health
Spec == Init /\ [][Next]_vars
(***************************************************************************)
(* Properties                                                              *)
(***************************************************************************)
Serving == pc = "serving"
AnalyzeFamily == {"/analyze", "/analyze-for-doctors"}
\* the dataset as the load assigned it to CACHED_DATA
LoadedData == IF disk.complete = "ok" THEN disk.data ELSE [l \in Languages |-> <<>>]
LoadFailed == disk.complete # "ok" \/ disk.metadata # "ok"

\* the request carries a text that is not empty after strip()
HasText(req) ==
    /\ req.endpoint \in AnalyzeFamily \cup {"/quick-symptoms"}
    /\ req.json = "object"
    /\ "text" \in DOMAIN req.data
    /\ Strip(req.data.text) # <<>>
\* the request carries no text, an empty text or a whitespace-only text
NoText(req) ==
    IsNone(req) \/ "text" \notin DOMAIN req.data \/ Strip(req.data.text) = <<>>
\* the request carries the language hint h
HasHint(req, h) ==
    req.json = "object" /\ "language" \in DOMAIN req.data /\ req.data.language = h

Answered == response.status = 200
CacheHit ==
    /\ request.endpoint \in AnalyzeFamily
    /\ Answered
    /\ response.body.cached = TRUE
\* the key under which a response of the endpoint carries a field of the case
ResponseKey(endpoint, field) ==
    IF endpoint = "/analyze-for-doctors" /\ field = "medical_keywords"
    THEN "keywords" ELSE field
\* no input of the candidate pool scores 70 or more against the text
NoneAcceptable(text) ==
    \A k \in DOMAIN UNIVERSAL_CACHED_INPUTS :
        ~ScoreAtLeast(token_sort_ratio(text, UNIVERSAL_CACHED_INPUTS[k].input), 70)

\* C1: once startup has finished, every cached case of the Corpus and of the
\* flattened index has the field values it was loaded with, whatever requests
\* were handled.
C1_CorpusNeverWritten ==
    Serving =>
        /\ CACHED_DATA = LoadedData
        /\ \A k \in DOMAIN UNIVERSAL_CACHED_INPUTS :
              CaseAt(CACHED_DATA, UNIVERSAL_CACHED_INPUTS[k].full_case)
                  = CaseAt(LoadedData, UNIVERSAL_CACHED_INPUTS[k].full_case)

\* C2: every AnalysisResponse of /analyze, cache hit or fallback, has a
\* non-empty translation and at least one entry in medical_keywords.
C2_ResponseComplete ==
    (request.endpoint = "/analyze" /\ Answered) =>
        /\ ~Falsy(response.body, "translation")
        /\ ~Falsy(response.body, "medical_keywords")

\* C3: the response to an /analyze or /analyze-for-doctors request is one the
\* handler gives for that request on the Corpus as loaded at startup, whatever
\* requests were handled before it.
C3_RequestsIndependent ==
    (Serving /\ request.endpoint \in AnalyzeFamily) =>
        response \in
            {o.response :
                o \in IF request.endpoint = "/analyze"
                      THEN analyze(LoadedData, UNIVERSAL_CACHED_INPUTS, request)
                      ELSE analyze_for_doctors(LoadedData, UNIVERSAL_CACHED_INPUTS,
                                               request)}

\* C4 as stated: an /analyze request with a hint h among the four supported
\* tags gets a response that reports language h, cache hit or fallback.
C4_HintAlwaysWins ==
    \A h \in Languages :
        (request.endpoint = "/analyze" /\ HasHint(request, h) /\ Answered) =>
            Get(response.body, "language", <<>>) = h

\* C4 as amended: an /analyze request with a hint h among the four supported
\* tags gets a response that reports language h when it ends as a fallback,
\* whatever its text; when it ends as a cache hit the response reports the
\* language field of the matched case.
C4_HintWinsOnFallback ==
    \A h \in Languages :
        (request.endpoint = "/analyze" /\ HasHint(request, h) /\ Answered) =>
            IF response.body.cached
            THEN Get(response.body, "language", <<>>)
                     = Get(CaseAt(CACHED_DATA, trace.matched), "language", <<>>)
            ELSE /\ response.body.match_type = "fallback_enhanced"
                 /\ response.body.language = h
\* a fallback response to a request hinted with a tag other than the default,
\* on a corpus that holds cases
C4_Witness ==
    /\ request.endpoint = "/analyze"
    /\ HasHint(request, igbo)
    /\ Answered
    /\ ~response.body.cached
    /\ response.body.language = igbo
    /\ UNIVERSAL_CACHED_INPUTS # <<>>

\* C5: an /analyze request whose explicit language is none of the four
\* supported tags ends in a client error and reaches neither the match nor
\* the synthesis.
C5_UnknownHintRejected ==
    (request.endpoint = "/analyze" /\ HasHint(request, french)) =>
        /\ response.status \in 400..499
        /\ trace.calls = {}

\* C6: an /analyze request whose text is missing, empty or only whitespace
\* ends in a 400 response, calls neither the matcher nor the fallback
\* synthesizer, and leaves the Corpus as it was.
C6_EmptyTextRejected ==
    [][(request'.endpoint = "/analyze" /\ NoText(request')) =>
           /\ response'.status = 400
           /\ trace' = NoTrace
           /\ CACHED_DATA' = CACHED_DATA]_vars
\* a whitespace-only text was refused while the corpus holds cases
C6_Witness ==
    /\ request.endpoint = "/analyze"
    /\ request.json = "object"
    /\ "text" \in DOMAIN request.data
    /\ request.data.text = <<" ", "\t">>
    /\ response.status = 400
    /\ UNIVERSAL_CACHED_INPUTS # <<>>

\* C7: when no input of the candidate pool scores 70 or more against the
\* request text (or the pool is empty), the response is a fallback: its match
\* type is the fallback one, similarity_score is 0, cached is false, severity
\* is moderate, and its keywords are the extracted keywords, or exactly the
\* placeholder when no lexicon term occurs in the text.
C7_NoMatchGivesFallback ==
    (HasText(request) /\ request.endpoint \in AnalyzeFamily
        /\ NoneAcceptable(Strip(request.data.text))) =>
        LET body == response.body
            keywords == body[ResponseKey(request.endpoint, "medical_keywords")]
            extracted == KeywordSet(Strip(request.data.text))
        IN  /\ Answered
            /\ body.match_type = "fallback_enhanced"
            /\ body.similarity_score = 0
            /\ body.cached = FALSE
            /\ body.severity = "moderate"
            /\ IF extracted = {} THEN keywords = <<Sentinel>>
               ELSE Range(keywords) = extracted /\ Len(keywords) = Cardinality(extracted)
\* a text without any lexicon term fell back against a pool that holds inputs
C7_Witness ==
    /\ request.endpoint = "/analyze"
    /\ HasText(request)
    /\ UNIVERSAL_CACHED_INPUTS # <<>>
    /\ KeywordSet(Strip(request.data.text)) = {}
    /\ Answered
    /\ response.body.medical_keywords = <<Sentinel>>

\* C8: the cached case behind a cache-hit response of /analyze or
\* /analyze-for-doctors has success = true.
C8_MatchedCaseSuccessful ==
    CacheHit =>
        /\ trace.matched # NoMatch
        /\ Get(CaseAt(CACHED_DATA, trace.matched), "success", FALSE) = TRUE
\* a cache hit on an input that an unsuccessful case of the corpus shares
C8_Witness ==
    /\ CacheHit
    /\ \E l \in Languages : \E i \in DOMAIN CACHED_DATA[l] :
          /\ ~Eligible(CACHED_DATA[l][i])
          /\ CACHED_DATA[l][i].input = CaseAt(CACHED_DATA, trace.matched).input

\* C9: startup never crashes, whichever artifact is missing or unreadable;
\* after a load failure the candidate pool is empty; and /health reports
\* cache_loaded = false exactly when the candidate pool is empty.
C9_StartupDegradesVisibly ==
    /\ pc # "crashed"
    /\ (Serving /\ LoadFailed) => UNIVERSAL_CACHED_INPUTS = <<>>
    /\ request.endpoint = "/health" =>
          (response.body.cache_loaded = FALSE <=> UNIVERSAL_CACHED_INPUTS = <<>>)

\* C10: on a cache hit, a translation, medical_keywords or enhanced_notes that
\* is present and non-empty in the matched case appears unchanged in the
\* response, also when another of these fields is missing and triggers the
\* patch.
C10_GenuineFieldsKept ==
    [][(request'.endpoint \in AnalyzeFamily /\ response'.status = 200
           /\ response'.body.cached = TRUE) =>
           LET case == CaseAt(CACHED_DATA, trace'.matched)
           IN  \A f \in {"translation", "medical_keywords", "enhanced_notes"} :
                   ~Falsy(case, f) =>
                       Get(response'.body, ResponseKey(request'.endpoint, f), <<>>)
                           = case[f]]_vars
====
